---- MODULE Spec2Model ----
(***************************************************************************)
(* Installment-expense materialization and month-ledger consistency of the *)
(* budgeting assistant (App component, IndexedDB revision).                *)
(*                                                                         *)
(* Representation.                                                         *)
(*  - A MonthKey "YYYY-M" is the pair <<year, month>>; the string is the   *)
(*    unpadded decimal rendering of the pair, so string equality is pair   *)
(*    equality and split('-').map(Number) returns the pair.                *)
(*  - Money is held in whole cents; the decimal value is cents / 100.      *)
(*  - React state is updated at the call of its setter; a handler reads    *)
(*    the values its closure captured when it was started.                 *)
(*  - An asynchronous handler advances one awaited operation at a time:    *)
(*    a step is the completion of the awaited call followed by the         *)
(*    synchronous code up to the next await.                               *)
(***************************************************************************)
EXTENDS Integers, Sequences, FiniteSets, TLC

VARIABLES
    currentMonth,     \* useState currentMonth
    viewedMonth,      \* useState viewedMonth
    budgets,          \* useState budgets (Budget of the viewed month)
    expenses,         \* useState expenses (visible list)
    allExpenses,      \* useState allExpenses
    chatHistory,      \* useState chatHistory (kinds of the messages)
    pendingAction,    \* useState pendingAction
    isLoading,        \* useState isLoading
    isFormSubmitting, \* useState isFormSubmitting
    dbBudgets,        \* object store 'budgets', keyed by month
    dbExpenses,       \* object store 'expenses', keyed by id
    nextId,           \* source of fresh expense / group ids
    chat,             \* handleSendMessage in flight
    form,             \* handleLocalSubmit in flight
    loads,            \* loadData effects in flight
    ops,              \* operations the user has started
    done,             \* record of the last completed resolver step
    arg,              \* input of the pure function under check
    res               \* its result

appVars == <<currentMonth, viewedMonth, budgets, expenses, allExpenses,
             chatHistory, pendingAction, isLoading, isFormSubmitting,
             dbBudgets, dbExpenses, nextId, chat, form, loads, ops, done>>
vars == <<currentMonth, viewedMonth, budgets, expenses, allExpenses,
          chatHistory, pendingAction, isLoading, isFormSubmitting,
          dbBudgets, dbExpenses, nextId, chat, form, loads, ops, done, arg, res>>

----------------------------------------------------------------------------
(* Bounds *)

MaxShift == 14
MaxTotal == 40
MaxCount == 4

----------------------------------------------------------------------------
(* MonthKey helpers *)

\* new Date(year, monthIndex, 1): a year 0..99 means 1900 + year; the month
\* index carries into the year in both directions.
JSDate(year, monthIndex) ==
    LET y == IF year >= 0 /\ year <= 99 THEN 1900 + year ELSE year
    IN  [fullYear |-> y + (monthIndex \div 12), month |-> monthIndex % 12]

\* integer division that rounds toward zero
Trunc(a, b) == IF a >= 0 THEN a \div b ELSE -((-a) \div b)

addMonthsTruncating(monthKey, offset) ==
    LET idx == (monthKey[2] - 1) + offset
    IN  <<monthKey[1] + Trunc(idx, 12), (idx % 12) + 1>>

addMonthsNoCarry(monthKey, offset) ==
    <<monthKey[1], ((monthKey[2] - 1 + offset) % 12) + 1>>

addMonthsToMonthKey(monthKey, offset) ==
    LET y == monthKey[1]
        m == monthKey[2]
        d == JSDate(y, (m - 1) + offset)
    IN  <<d.fullYear, d.month + 1>>

\* ey > cy || (ey === cy && em > cm)
MonthLater(a, b) == a[1] > b[1] \/ (a[1] = b[1] /\ a[2] > b[2])

LinearIndex(k) == k[1] * 12 + (k[2] - 1)

----------------------------------------------------------------------------
(* Installment splitter (amounts in cents) *)

splitBackLoaded(total, count) ==
    LET base == total \div count
        remainder == total - base * count
    IN  [i \in 1..count |-> base + (IF i > count - remainder THEN 1 ELSE 0)]

splitDropRemainder(total, count) ==
    [i \in 1..count |-> total \div count]

splitAmountIntoInstallments(total, count) ==
    LET cents == total
        base == cents \div count
        remainder == cents - base * count
    IN  [i \in 1..count |-> base + (IF (i - 1) < remainder THEN 1 ELSE 0)]

RECURSIVE SumSeq(_)
SumSeq(s) == IF s = <<>> THEN 0 ELSE Head(s) + SumSeq(Tail(s))

----------------------------------------------------------------------------
(* Data *)

\* getMonthYear(): the real-world month while the application runs
Today == <<2025, 12>>

MaxOps == 2      \* operations the user starts in one run of the application

Null == "null"
None == <<>>
EmptyMap == [x \in {} |-> 0]

toLowerCase(c) ==
    CASE c = "Mercado" -> "mercado"
      [] c = "Lazer" -> "lazer"
      [] c = "Pets" -> "pets"
      [] OTHER -> c

\* ExpenseIntent: which of its optional fields are numbers
Intent(cat, hasAmount, amount, hasInst, count, field, value, base, offset) ==
    [category |-> cat, hasAmount |-> hasAmount, amount |-> amount,
     hasInstallments |-> hasInst, count |-> count, valueField |-> field,
     value |-> value, baseMonth |-> base, startOffsetMonths |-> offset]

Simple(cat, amount) == Intent(cat, TRUE, amount, FALSE, 0, "none", 0, "absent", 0)
PerInstallment(cat, n, a, base, off) ==
    Intent(cat, FALSE, 0, TRUE, n, "amountPerInstallment", a, base, off)
TotalAmount(cat, n, t, base, off) ==
    Intent(cat, FALSE, 0, TRUE, n, "totalAmount", t, base, off)
NoValue(cat) == Intent(cat, FALSE, 0, FALSE, 0, "none", 0, "absent", 0)
InstallmentsNoValue(cat, n) == Intent(cat, FALSE, 0, TRUE, n, "none", 0, "absent", 0)

\* ADD_EXPENSE payloads of the current shape
OracleBatches ==
    { <<Simple("mercado", 5000)>>,
      <<Simple("Lazer", 1250)>>,
      <<PerInstallment("Mercado", 3, 10000, "viewed", 0)>>,
      <<TotalAmount("Mercado", 3, 10000, "current", 1)>>,
      <<InstallmentsNoValue("Mercado", 2)>>,
      <<NoValue("Mercado"), Simple("Mercado", 5000)>>,
      <<Simple("Lazer", 1250), TotalAmount("mercado", 2, 101, "absent", 0)>>,
      <<PerInstallment("Mercado", 2, 700, "viewed", 1), Simple("Mercado", 5000)>>,
      <<Simple("Mercado", -500)>>,
      <<PerInstallment("Mercado", 2, 700, "viewed", 1),
        TotalAmount("Mercado", 2, 101, "current", 0)>>,
      <<Simple("Mercado", 5000), Simple("mercado", 5000)>> }

\* budget patches of SET_BUDGET and of the category form
BudgetPatches == { ("Mercado" :> 50000), ("Lazer" :> 0) }

\* DELETE_EXPENSE and DELETE_CATEGORY payloads
DeletePayloads == { [category |-> "mercado", amount |-> 5000],
                    [category |-> "Lazer", amount |-> 700] }
DeleteCategories == { "Mercado", "lazer", "Lazer" }

\* ADD_EXPENSE payloads of the older shape: month (and group) set by the caller
LegacyEntry(cat, amount, month, group, info) ==
    [category |-> cat, amount |-> amount, month |-> month,
     installmentGroupId |-> group, installmentInfo |-> info]
LegacyBatches ==
    { <<LegacyEntry("Pets", 300, <<2026, 1>>, <<>>, <<>>)>>,
      <<LegacyEntry("Mercado", 200, <<2026, 1>>, <<"oracle", 1>>, <<1, 2>>),
        LegacyEntry("Mercado", 200, <<2026, 2>>, <<>>, <<2, 2>>)>> }

\* the budgets object store at start: a first run, or a store kept from
\* earlier sessions in which one category was created, in one month or in two
StoredBudgets ==
    { EmptyMap,
      (Today :> ("Mercado" :> 50000)),
      (<<2025, 11>> :> ("Mercado" :> 40000)) @@ (Today :> ("Mercado" :> 50000)) }

\* months the oracle names in VIEW_PREVIOUS_MONTH and in SET_BUDGET
OracleMonths == { <<2025, 11>>, <<2026, 2>> }
BudgetMonths == { None, <<2026, 2>> }

----------------------------------------------------------------------------
(* Ledger store (utils/db) *)

getBudgets(month) == IF month \in DOMAIN dbBudgets THEN dbBudgets[month] ELSE None

RECURSIVE SortById(_)
SortById(S) ==
    IF S = {} THEN <<>>
    ELSE LET e == CHOOSE x \in S : \A y \in S : x.id <= y.id
         IN  <<e>> \o SortById(S \ {e})

getExpenses(month) == SortById({e \in dbExpenses : e.month = month})
getAllExpenses == SortById(dbExpenses)

Range(s) == {s[k] : k \in DOMAIN s}

----------------------------------------------------------------------------
(* Expense Intent Resolver: applyAddExpensePayload *)

\* a handler that is not running
IdleRun ==
    [pc |-> "idle", cm |-> None, vm |-> None, bud |-> EmptyMap, exps |-> <<>>,
     hist |-> <<>>, intents |-> <<>>, j |-> 0, i |-> 0, group |-> None,
     maxMonth |-> None, recs |-> <<>>, diags |-> <<>>, peer |-> {}]

\* the closure of a handler started now
Closure(pc, hist) ==
    [IdleRun EXCEPT !.pc = pc, !.cm = currentMonth, !.vm = viewedMonth,
                    !.bud = budgets, !.exps = expenses, !.hist = hist]

categoryAlwaysExists(bud, category) == TRUE

\* Object.keys(budgets).some(k => k.toLowerCase() === req.category.toLowerCase())
categoryExists(bud, category) ==
    \E k \in DOMAIN bud : toLowerCase(k) = toLowerCase(category)

\* req.installments?.count && req.installments.count > 1
isParcelado(req) == req.hasInstallments /\ req.count # 0 /\ req.count > 1

perParcelFirstOnly(req) ==
    IF req.valueField = "amountPerInstallment" THEN <<req.value>>
    ELSE IF req.valueField = "totalAmount"
         THEN <<splitAmountIntoInstallments(req.value, req.count)[1]>>
         ELSE None

perParcelAlwaysSplit(req) ==
    IF req.valueField = "none" THEN None
    ELSE splitAmountIntoInstallments(req.value, req.count)

\* perParcelAmounts, None when neither value is a number
perParcelAmounts(req) ==
    IF req.valueField = "amountPerInstallment" THEN [k \in 1..req.count |-> req.value]
    ELSE IF req.valueField = "totalAmount"
         THEN splitAmountIntoInstallments(req.value, req.count)
         ELSE None

\* the branch of the per-intent loop taken by req
Branch(bud, req) ==
    IF ~categoryExists(bud, req.category) THEN "diagCategory"
    ELSE IF isParcelado(req)
         THEN (IF perParcelAmounts(req) = None THEN "diagParcel" ELSE "parcelado")
         ELSE (IF req.hasAmount THEN "simples" ELSE "diagValue")

\* number of saveExpense calls the intent makes
Writes(bud, req) ==
    CASE Branch(bud, req) = "parcelado" -> Len(perParcelAmounts(req))
      [] Branch(bud, req) = "simples" -> 1
      [] OTHER -> 0

SeekStopsAtRejection(bud, intents, j) ==
    IF j > Len(intents) \/ Writes(bud, intents[j]) > 0
    THEN [j |-> j, diags |-> <<>>]
    ELSE [j |-> Len(intents) + 1,
          diags |-> <<[j |-> j, kind |-> Branch(bud, intents[j])]>>]

\* the loop from intent j up to the next saveExpense: the intents skipped with
\* a diagnostic, and the index of the intent that writes (Len + 1 when none)
RECURSIVE Seek(_, _, _)
Seek(bud, intents, j) ==
    IF j > Len(intents) THEN [j |-> j, diags |-> <<>>]
    ELSE IF Writes(bud, intents[j]) > 0 THEN [j |-> j, diags |-> <<>>]
    ELSE LET rest == Seek(bud, intents, j + 1)
         IN  [j |-> rest.j,
              diags |-> <<[j |-> j, kind |-> Branch(bud, intents[j])]>> \o rest.diags]

Kinds(diags) == [k \in DOMAIN diags |-> diags[k].kind]

baseMonthAlwaysViewed(R, req) == R.vm

\* baseMonthSrc === 'current' ? currentMonth : viewedMonth
baseMonthKey(R, req) == IF req.baseMonth = "current" THEN R.cm ELSE R.vm

monthOfWriteNoOffset(R) == addMonthsToMonthKey(baseMonthKey(R, R.intents[R.j]), R.i)

\* addMonthsToMonthKey(baseMonthKey, startOffset + i)
monthOfWrite(R) ==
    LET req == R.intents[R.j]
    IN  addMonthsToMonthKey(baseMonthKey(R, req), req.startOffsetMonths + R.i)

\* the Expense built for installment i of intent j (i = 0 for a simple one)
processed(R) ==
    LET req == R.intents[R.j]
        parcelado == isParcelado(req)
    IN  [id |-> nextId,
         category |-> req.category,
         amount |-> IF parcelado THEN perParcelAmounts(req)[R.i + 1] ELSE req.amount,
         month |-> monthOfWrite(R),
         installmentGroupId |-> IF parcelado THEN R.group ELSE None,
         installmentInfo |-> IF parcelado THEN <<R.i + 1, req.count>> ELSE None]

maxMonthKeepFirst(maxMonth, month) == maxMonth

\* if (ey > cy || (ey === cy && em > cm)) maxMonth = processed.month
trackMaxMonth(maxMonth, month) == IF MonthLater(month, maxMonth) THEN month ELSE maxMonth

\* first call of the loop: position on the first intent that writes
Enter(R, intents, h) ==
    LET s == Seek(R.bud, intents, 1)
    IN  [R EXCEPT !.pc = IF s.j > Len(intents) THEN "return" ELSE "batch",
                  !.intents = intents, !.j = s.j, !.i = 0,
                  !.group = <<h, nextId>>, !.maxMonth = R.cm,
                  !.recs = <<>>, !.diags = s.diags]

\* after saveExpense of processed(R) has resolved: the rest of the loop body
\* and the loop up to the next saveExpense
AfterSave(R, h) ==
    LET rec == processed(R)
        req == R.intents[R.j]
        R1 == [R EXCEPT !.maxMonth = trackMaxMonth(R.maxMonth, rec.month),
                        !.recs = Append(R.recs, [j |-> R.j, rec |-> rec])]
    IN  IF R.i + 1 < Writes(R.bud, req)
        THEN [R1 EXCEPT !.i = R.i + 1]
        ELSE LET s == Seek(R.bud, R.intents, R.j + 1)
             IN  [R1 EXCEPT !.pc = IF s.j > Len(R.intents) THEN "return" ELSE "batch",
                            !.j = s.j, !.i = 0, !.group = <<h, nextId + 1>>,
                            !.diags = R.diags \o s.diags]

\* if (maxMonth !== currentMonth) setCurrentMonth(maxMonth)
currentMonthAfterBatch(R) == IF R.maxMonth # R.cm THEN R.maxMonth ELSE currentMonth

\* what is recorded of a batch when applyAddExpensePayload returns
Done(R, h) ==
    [h |-> h, intents |-> R.intents, bud |-> R.bud, cm |-> R.cm, vm |-> R.vm,
     recs |-> R.recs, diags |-> R.diags, peer |-> R.peer, cmLive |-> currentMonth,
     vmLive |-> viewedMonth, dbLive |-> dbExpenses, chatLive |-> chatHistory]

\* the months a batch has written
MonthsOf(recs) == {recs[k].rec.month : k \in DOMAIN recs}

\* the other handler O, told of the months of a batch R that returns while O is
\* itself suspended at a saveExpense
Overlapped(O, R) ==
    IF R.pc = "return" /\ O.pc = "batch"
    THEN [O EXCEPT !.peer = O.peer \cup MonthsOf(R.recs)]
    ELSE O

\* the diagnostics a step from R to R2 has passed to setChatHistory
NewDiags(R, R2) == Kinds(SubSeq(R2.diags, Len(R.diags) + 1, Len(R2.diags)))

----------------------------------------------------------------------------
(* Effects *)

\* useEffect(loadData, [viewedMonth]): a change of viewedMonth starts a load
Effect(newViewed) == IF newViewed # viewedMonth THEN Append(loads, newViewed) ELSE loads

\* await saveExpense(processed); setExpenses / setAllExpenses
SaveExpense(R) ==
    LET rec == processed(R)
    IN  /\ dbExpenses' = dbExpenses \cup {rec}
        /\ expenses' = IF rec.month = R.vm THEN Append(expenses, rec) ELSE expenses
        /\ allExpenses' = Append(allExpenses, rec)
        /\ nextId' = nextId + 1

\* the end of handleSendMessage after the switch: setChatHistory(finalHistory)
\* and the finally block
finalHistory(R) == Append(R.hist, "model")

----------------------------------------------------------------------------
(* handleSendMessage *)

Send ==
    /\ ~isLoading
    /\ chat.pc = "idle"
    /\ ops < MaxOps
    /\ ops' = ops + 1
    /\ isLoading' = TRUE
    /\ chatHistory' = Append(chatHistory, "user")
    /\ chat' = Closure("oracle", Append(chatHistory, "user"))
    /\ done' = None
    /\ UNCHANGED <<currentMonth, viewedMonth, budgets, expenses, allExpenses,
                   pendingAction, isFormSubmitting, dbBudgets, dbExpenses, nextId,
                   form, loads, arg, res>>

CatchStaysLoading ==
    /\ chatHistory' = Append(chatHistory, "error")
    /\ pendingAction' = Null
    /\ isLoading' = isLoading
    /\ chat' = IdleRun
    /\ done' = None

CatchKeepsPending ==
    /\ chatHistory' = Append(chatHistory, "error")
    /\ pendingAction' = pendingAction
    /\ isLoading' = FALSE
    /\ chat' = IdleRun
    /\ done' = None

\* the catch block: generateContent or JSON.parse threw, or the store call
\* of the action threw before it changed anything
Catch ==
    /\ chatHistory' = Append(chatHistory, "error")
    /\ pendingAction' = Null
    /\ isLoading' = FALSE
    /\ chat' = IdleRun
    /\ done' = None

OracleFails ==
    /\ chat.pc = "oracle"
    /\ Catch
    /\ UNCHANGED <<ops, currentMonth, viewedMonth, budgets, expenses, allExpenses,
                   isFormSubmitting, dbBudgets, dbExpenses, nextId, form, loads,
                   arg, res>>

\* the handler ends normally
Finish(pending) ==
    /\ pendingAction' = pending
    /\ chatHistory' = finalHistory(chat)
    /\ isLoading' = FALSE
    /\ chat' = IdleRun

ConfirmAction ==
    /\ chat.pc = "oracle"
    /\ Finish("payload")
    /\ done' = None
    /\ UNCHANGED <<ops, currentMonth, viewedMonth, budgets, expenses, allExpenses,
                   isFormSubmitting, dbBudgets, dbExpenses, nextId, form, loads,
                   arg, res>>

\* CANCEL_ACTION, GREETING, UNKNOWN and any other action
OtherAction ==
    /\ chat.pc = "oracle"
    /\ Finish(Null)
    /\ done' = None
    /\ UNCHANGED <<ops, currentMonth, viewedMonth, budgets, expenses, allExpenses,
                   isFormSubmitting, dbBudgets, dbExpenses, nextId, form, loads,
                   arg, res>>

\* SET_BUDGET with payload {month, budget}
SetBudgetOf(month, patch) ==
    /\ chat.pc = "oracle"
    /\ LET monthToSet == IF month # None THEN month ELSE chat.vm
           newBudgets == patch @@ chat.bud
       IN  /\ dbBudgets' = (monthToSet :> newBudgets) @@ dbBudgets
           /\ budgets' = IF monthToSet = chat.vm THEN newBudgets ELSE budgets
           /\ currentMonth' = IF MonthLater(monthToSet, chat.cm)
                              THEN monthToSet ELSE currentMonth
    /\ Finish(Null)
    /\ done' = None
    /\ UNCHANGED <<ops, viewedMonth, expenses, allExpenses, isFormSubmitting,
                   dbExpenses, nextId, form, loads, arg, res>>

SetBudget == \E month \in BudgetMonths, patch \in BudgetPatches : SetBudgetOf(month, patch)

\* ADD_EXPENSE, current payload shape: applyAddExpensePayload up to its
\* first saveExpense
AddExpense ==
    /\ chat.pc = "oracle"
    /\ \E batch \in OracleBatches :
         /\ LET R == Enter(chat, batch, "chat")
            IN  IF R.pc = "return"
                THEN /\ Finish(Null)
                     /\ currentMonth' = currentMonthAfterBatch(R)
                     /\ done' = Done(R, "chat")
                ELSE /\ chat' = R
                     /\ chatHistory' = chatHistory \o NewDiags(chat, R)
                     /\ done' = None
                     /\ UNCHANGED <<currentMonth, pendingAction, isLoading>>
    /\ UNCHANGED <<ops, viewedMonth, budgets, expenses, allExpenses, isFormSubmitting,
                   dbBudgets, dbExpenses, nextId, form, loads, arg, res>>

\* a saveExpense of the chat batch resolves
ChatSaveExpense ==
    /\ chat.pc = "batch"
    /\ SaveExpense(chat)
    /\ LET R == AfterSave(chat, "chat")
       IN  /\ form' = Overlapped(form, R)
           /\ IF R.pc = "return"
              THEN /\ Finish(Null)
                   /\ currentMonth' = currentMonthAfterBatch(R)
                   /\ done' = Done(R, "chat")
              ELSE /\ chat' = R
                   /\ chatHistory' = chatHistory \o NewDiags(chat, R)
                   /\ done' = None
                   /\ UNCHANGED <<currentMonth, pendingAction, isLoading>>
    /\ UNCHANGED <<ops, viewedMonth, budgets, isFormSubmitting, dbBudgets, loads,
                   arg, res>>

\* a saveExpense of the chat batch rejects: the exception reaches the catch
ChatSaveExpenseFails ==
    /\ chat.pc = "batch"
    /\ Catch
    /\ UNCHANGED <<ops, currentMonth, viewedMonth, budgets, expenses, allExpenses,
                   isFormSubmitting, dbBudgets, dbExpenses, nextId, form, loads,
                   arg, res>>

\* object without one key
Without(b, key) == [k \in DOMAIN b \ {key} |-> b[k]]

DeleteExpenseAllMatches(payload) ==
    /\ chat.pc = "oracle"
    /\ LET Keep(e) == ~(/\ toLowerCase(e.category) = toLowerCase(payload.category)
                        /\ e.amount = payload.amount)
       IN  /\ dbExpenses' = {e \in dbExpenses : Keep(e)}
           /\ expenses' = SelectSeq(expenses, Keep)
           /\ allExpenses' = SelectSeq(allExpenses, Keep)
    /\ Finish(Null)
    /\ done' = None
    /\ UNCHANGED <<ops, currentMonth, viewedMonth, budgets, isFormSubmitting, dbBudgets,
                   nextId, form, loads, arg, res>>

\* DELETE_EXPENSE with payload {category, amount}
DeleteExpenseOf(payload) ==
    /\ chat.pc = "oracle"
    /\ LET Match(e) == /\ toLowerCase(e.category) = toLowerCase(payload.category)
                       /\ e.amount = payload.amount
           found == SelectSeq(chat.exps, Match)
       IN  IF found # <<>>
           THEN LET id == found[1].id
                    Keep(e) == e.id # id
                IN  /\ dbExpenses' = {e \in dbExpenses : e.id # id}
                    /\ expenses' = SelectSeq(expenses, Keep)
                    /\ allExpenses' = SelectSeq(allExpenses, Keep)
           ELSE UNCHANGED <<dbExpenses, expenses, allExpenses>>
    /\ Finish(Null)
    /\ done' = None
    /\ UNCHANGED <<ops, currentMonth, viewedMonth, budgets, isFormSubmitting, dbBudgets,
                   nextId, form, loads, arg, res>>

DeleteExpense == \E payload \in DeletePayloads : DeleteExpenseOf(payload)

\* NEXT_MONTH with payload {copyBudgets}
NextMonthOf(copyBudgets) ==
    /\ chat.pc = "oracle"
    /\ LET nextDate == JSDate(chat.vm[1], chat.vm[2])
           newMonthKey == <<nextDate.fullYear, nextDate.month + 1>>
           currentBudgets == getBudgets(chat.vm)
       IN  /\ dbBudgets' = IF copyBudgets /\ currentBudgets # None
                           THEN (newMonthKey :> currentBudgets) @@ dbBudgets
                           ELSE dbBudgets
           /\ viewedMonth' = newMonthKey
           /\ currentMonth' = newMonthKey
           /\ loads' = Effect(newMonthKey)
    /\ Finish(Null)
    /\ done' = None
    /\ UNCHANGED <<ops, budgets, expenses, allExpenses, isFormSubmitting, dbExpenses,
                   nextId, form, arg, res>>

NextMonth == \E copyBudgets \in BOOLEAN : NextMonthOf(copyBudgets)

ViewPreviousMonth ==
    /\ chat.pc = "oracle"
    /\ \E payload \in OracleMonths :
         /\ viewedMonth' = payload
         /\ loads' = Effect(payload)
    /\ Finish(Null)
    /\ done' = None
    /\ UNCHANGED <<ops, currentMonth, budgets, expenses, allExpenses, isFormSubmitting,
                   dbBudgets, dbExpenses, nextId, form, arg, res>>

ClearAllDataKeepsBudgets ==
    /\ chat.pc = "oracle"
    /\ dbBudgets' = dbBudgets
    /\ dbExpenses' = {}
    /\ budgets' = EmptyMap
    /\ expenses' = <<>>
    /\ allExpenses' = <<>>
    /\ viewedMonth' = Today
    /\ currentMonth' = Today
    /\ loads' = Effect(Today)
    /\ Finish(Null)
    /\ done' = None
    /\ UNCHANGED <<ops, isFormSubmitting, nextId, form, arg, res>>

\* CLEAR_ALL_DATA
ClearAllData ==
    /\ chat.pc = "oracle"
    /\ dbBudgets' = EmptyMap
    /\ dbExpenses' = {}
    /\ budgets' = EmptyMap
    /\ expenses' = <<>>
    /\ allExpenses' = <<>>
    /\ viewedMonth' = Today
    /\ currentMonth' = Today
    /\ loads' = Effect(Today)
    /\ Finish(Null)
    /\ done' = None
    /\ UNCHANGED <<ops, isFormSubmitting, nextId, form, arg, res>>

\* deleteCategoryFromDB(category, month)
deleteCategoryFromDB(category, month) ==
    LET stored == getBudgets(month)
    IN  /\ dbBudgets' = IF stored # None /\ category \in DOMAIN stored
                           /\ stored[category] # 0
                        THEN (month :> Without(stored, category)) @@ dbBudgets
                        ELSE dbBudgets
        /\ dbExpenses' = {e \in dbExpenses :
                            ~(e.month = month /\ e.category = category)}

\* DELETE_CATEGORY with payload {category}
DeleteCategoryOf(categoryToDelete) ==
    /\ chat.pc = "oracle"
    /\ LET Keep(e) == toLowerCase(e.category) # toLowerCase(categoryToDelete)
       IN  /\ deleteCategoryFromDB(categoryToDelete, chat.vm)
           /\ budgets' = Without(chat.bud, categoryToDelete)
           /\ expenses' = SelectSeq(chat.exps, Keep)
           /\ allExpenses' = SelectSeq(allExpenses, Keep)
    /\ Finish(Null)
    /\ done' = None
    /\ UNCHANGED <<ops, currentMonth, viewedMonth, isFormSubmitting, nextId, form,
                   loads, arg, res>>

DeleteCategory == \E categoryToDelete \in DeleteCategories : DeleteCategoryOf(categoryToDelete)

\* ADD_EXPENSE, older payload shape (looksOld): the loop up to its first
\* saveExpense
AddExpenseLegacy ==
    /\ chat.pc = "oracle"
    /\ \E batch \in LegacyBatches :
         /\ chat' = [chat EXCEPT !.pc = "legacy", !.intents = batch, !.j = 1,
                                 !.maxMonth = chat.cm]
    /\ done' = None
    /\ UNCHANGED <<ops, currentMonth, viewedMonth, budgets, expenses, allExpenses,
                   chatHistory, pendingAction, isLoading, isFormSubmitting,
                   dbBudgets, dbExpenses, nextId, form, loads, arg, res>>

\* the Expense built from entry i of an older payload
processedExpense(R) ==
    LET exp == R.intents[R.j]
        Grouped(e) == e.installmentGroupId # None
        isInstallment == \E k \in DOMAIN R.intents : Grouped(R.intents[k])
        installmentGroupIdForGroup == SelectSeq(R.intents, Grouped)[1].installmentGroupId
    IN  [id |-> nextId,
         category |-> exp.category,
         amount |-> exp.amount,
         month |-> IF exp.month # None THEN exp.month ELSE R.vm,
         installmentGroupId |->
             IF isInstallment
             THEN (IF exp.installmentGroupId # None THEN exp.installmentGroupId
                   ELSE installmentGroupIdForGroup)
             ELSE None,
         installmentInfo |-> IF isInstallment THEN exp.installmentInfo ELSE None]

\* a saveExpense of the older-shape loop resolves
LegacySaveExpense ==
    /\ chat.pc = "legacy"
    /\ LET rec == processedExpense(chat)
           maxMonth == trackMaxMonth(chat.maxMonth, rec.month)
       IN  /\ dbExpenses' = dbExpenses \cup {rec}
           /\ expenses' = IF rec.month = chat.vm THEN Append(expenses, rec) ELSE expenses
           /\ allExpenses' = Append(allExpenses, rec)
           /\ nextId' = nextId + 1
           /\ IF chat.j < Len(chat.intents)
              THEN /\ chat' = [chat EXCEPT !.j = chat.j + 1, !.maxMonth = maxMonth]
                   /\ UNCHANGED <<currentMonth, pendingAction, isLoading, chatHistory>>
              ELSE /\ currentMonth' = IF maxMonth # chat.cm THEN maxMonth ELSE currentMonth
                   /\ Finish(Null)
    /\ done' = None
    /\ UNCHANGED <<ops, viewedMonth, budgets, isFormSubmitting, dbBudgets, form, loads,
                   arg, res>>

LegacySaveExpenseFails ==
    /\ chat.pc = "legacy"
    /\ Catch
    /\ UNCHANGED <<ops, currentMonth, viewedMonth, budgets, expenses, allExpenses,
                   isFormSubmitting, dbBudgets, dbExpenses, nextId, form, loads,
                   arg, res>>

----------------------------------------------------------------------------
(* User interface *)

\* loadData of the oldest pending effect resolves
LoadData ==
    /\ loads # <<>>
    /\ LET month == Head(loads)
           savedBudgets == getBudgets(month)
       IN  /\ budgets' = IF savedBudgets # None THEN savedBudgets ELSE EmptyMap
           /\ expenses' = getExpenses(month)
           /\ allExpenses' = getAllExpenses
    /\ loads' = Tail(loads)
    /\ done' = None
    /\ UNCHANGED <<ops, currentMonth, viewedMonth, chatHistory, pendingAction, isLoading,
                   isFormSubmitting, dbBudgets, dbExpenses, nextId, chat, form,
                   arg, res>>

monthChangeUnclamped(direction) ==
    LET newDate == JSDate(viewedMonth[1],
                          viewedMonth[2] - (IF direction = "prev" THEN 2 ELSE 0))
    IN  <<newDate.fullYear, newDate.month + 1>>

\* handleMonthChange: the month it moves to (viewedMonth itself on return)
monthChange(direction) ==
    LET newDate == JSDate(viewedMonth[1],
                          viewedMonth[2] - (IF direction = "prev" THEN 2 ELSE 0))
        newMonthKey == <<newDate.fullYear, newDate.month + 1>>
    IN  IF MonthLater(newMonthKey, currentMonth) THEN viewedMonth ELSE newMonthKey

\* a press of one of the month buttons of the header; the 'next' button is
\* disabled while viewedMonth === currentMonth
handleMonthChangeOf(direction) ==
    /\ ops < MaxOps
    /\ ops' = ops + 1
    /\ direction = "next" => viewedMonth # currentMonth
    /\ viewedMonth' = monthChange(direction)
    /\ loads' = Effect(monthChange(direction))
    /\ done' = None
    /\ UNCHANGED <<currentMonth, budgets, expenses, allExpenses, chatHistory,
                   pendingAction, isLoading, isFormSubmitting, dbBudgets,
                   dbExpenses, nextId, chat, form, arg, res>>

handleMonthChange == \E direction \in {"prev", "next"} : handleMonthChangeOf(direction)

\* swipe on an entry of the list
handleDeleteExpense ==
    /\ ops < MaxOps
    /\ ops' = ops + 1
    /\ \E e \in Range(expenses) :
         LET Keep(x) == x.id # e.id
         IN  /\ dbExpenses' = {x \in dbExpenses : x.id # e.id}
             /\ expenses' = SelectSeq(expenses, Keep)
             /\ allExpenses' = SelectSeq(allExpenses, Keep)
    /\ done' = None
    /\ UNCHANGED <<currentMonth, viewedMonth, budgets, chatHistory, pendingAction,
                   isLoading, isFormSubmitting, dbBudgets, nextId, chat, form,
                   loads, arg, res>>

handleCategoryFormSubmit ==
    /\ ops < MaxOps
    /\ ops' = ops + 1
    /\ \E data \in BudgetPatches :
         LET newBudgets == data @@ budgets
         IN  /\ dbBudgets' = (viewedMonth :> newBudgets) @@ dbBudgets
             /\ budgets' = newBudgets
    /\ done' = None
    /\ UNCHANGED <<currentMonth, viewedMonth, expenses, allExpenses, chatHistory,
                   pendingAction, isLoading, isFormSubmitting, dbExpenses, nextId,
                   chat, form, loads, arg, res>>

\* what the add-expense form can submit: a category of the select, an amount
\* typed with digits and a comma, and a number of installments
FormIntents ==
    { Simple(c, 2500) : c \in DOMAIN budgets } \cup
    { Simple(c, 0) : c \in DOMAIN budgets \ {"Lazer"} } \cup
    { TotalAmount(c, n, 1000, "viewed", 0) : c \in DOMAIN budgets \ {"Lazer"}, n \in {1, 3} }

\* AddExpenseForm.handleLocalSubmit up to its first saveExpense
handleLocalSubmit ==
    /\ ~isFormSubmitting
    /\ form.pc = "idle"
    /\ ops < MaxOps
    /\ ops' = ops + 1
    /\ \E req \in FormIntents :
         /\ LET R == Enter(Closure("batch", <<>>), <<req>>, "form")
            IN  /\ chatHistory' = chatHistory \o NewDiags(IdleRun, R)
                /\ IF R.pc = "return"
                   THEN /\ form' = IdleRun
                        /\ isFormSubmitting' = FALSE
                        /\ currentMonth' = currentMonthAfterBatch(R)
                        /\ done' = Done(R, "form")
                   ELSE /\ form' = R
                        /\ isFormSubmitting' = TRUE
                        /\ done' = None
                        /\ UNCHANGED currentMonth
    /\ UNCHANGED <<viewedMonth, budgets, expenses, allExpenses, pendingAction,
                   isLoading, dbBudgets, dbExpenses, nextId, chat, loads, arg, res>>

\* a saveExpense of the form's batch resolves
FormSaveExpense ==
    /\ form.pc = "batch"
    /\ SaveExpense(form)
    /\ LET R == AfterSave(form, "form")
       IN  /\ chatHistory' = chatHistory \o NewDiags(form, R)
           /\ chat' = Overlapped(chat, R)
           /\ IF R.pc = "return"
              THEN /\ form' = IdleRun
                   /\ isFormSubmitting' = FALSE
                   /\ currentMonth' = currentMonthAfterBatch(R)
                   /\ done' = Done(R, "form")
              ELSE /\ form' = R
                   /\ done' = None
                   /\ UNCHANGED <<currentMonth, isFormSubmitting>>
    /\ UNCHANGED <<ops, viewedMonth, budgets, pendingAction, isLoading, dbBudgets,
                   loads, arg, res>>

\* a saveExpense of the form's batch rejects: catch logs, finally resets
FormSaveExpenseFails ==
    /\ form.pc = "batch"
    /\ form' = IdleRun
    /\ isFormSubmitting' = FALSE
    /\ done' = None
    /\ UNCHANGED <<ops, currentMonth, viewedMonth, budgets, expenses, allExpenses,
                   chatHistory, pendingAction, dbBudgets, dbExpenses, nextId,
                   isLoading, chat, loads, arg, res>>

----------------------------------------------------------------------------
(* The application *)

AppInit ==
    /\ currentMonth = Today
    /\ viewedMonth = Today
    /\ budgets = EmptyMap
    /\ expenses = <<>>
    /\ allExpenses = <<>>
    /\ chatHistory = <<"model">>
    /\ pendingAction = Null
    /\ isLoading = FALSE
    /\ isFormSubmitting = FALSE
    /\ dbBudgets \in StoredBudgets
    /\ dbExpenses = {}
    /\ nextId = 1
    /\ ops = 0
    /\ chat = IdleRun
    /\ form = IdleRun
    /\ loads = <<Today>>
    /\ done = None

Init ==
    /\ AppInit
    /\ arg = None
    /\ res = None

Next ==
    \/ Send
    \/ OracleFails
    \/ ConfirmAction
    \/ OtherAction
    \/ SetBudget
    \/ AddExpense
    \/ ChatSaveExpense
    \/ ChatSaveExpenseFails
    \/ AddExpenseLegacy
    \/ LegacySaveExpense
    \/ LegacySaveExpenseFails
    \/ DeleteExpense
    \/ NextMonth
    \/ ViewPreviousMonth
    \/ ClearAllData
    \/ DeleteCategory
    \/ LoadData
    \/ handleMonthChange
    \/ handleDeleteExpense
    \/ handleCategoryFormSubmit
    \/ handleLocalSubmit
    \/ FormSaveExpense
    \/ FormSaveExpenseFails

Spec == Init /\ [][Next]_vars

----------------------------------------------------------------------------
(* The pure helpers, applied to every input of a bounded set *)

SplitInputs ==
    { [total |-> t, count |-> c] : t \in (0..MaxTotal) \cup {10000}, c \in 2..MaxCount }

SplitInit ==
    /\ AppInit
    /\ arg \in SplitInputs
    /\ res = None

Split ==
    /\ res = None
    /\ res' = splitAmountIntoInstallments(arg.total, arg.count)
    /\ UNCHANGED <<appVars, arg>>

SplitNext == Split

SpecSplit == SplitInit /\ [][SplitNext]_vars

MonthInputs ==
    { [k |-> <<y, m>>, o1 |-> a, o2 |-> b] :
        y \in {2024, 2025, 2026}, m \in 1..12,
        a \in (-MaxShift)..MaxShift, b \in (-MaxShift)..MaxShift }

MonthInit ==
    /\ AppInit
    /\ arg \in MonthInputs
    /\ res = None

ShiftFirst ==
    /\ res = None
    /\ res' = [first |-> addMonthsToMonthKey(arg.k, arg.o1), second |-> None]
    /\ UNCHANGED <<appVars, arg>>

ShiftSecond ==
    /\ res # None
    /\ res.second = None
    /\ res' = [res EXCEPT !.second = addMonthsToMonthKey(res.first, arg.o2)]
    /\ UNCHANGED <<appVars, arg>>

MonthNext == ShiftFirst \/ ShiftSecond

SpecMonth == MonthInit /\ [][MonthNext]_vars

----------------------------------------------------------------------------
(* Properties *)

Quiescent == chat.pc = "idle" /\ form.pc = "idle"

\* a is the same month as b or a later one
NotEarlier(a, b) == LinearIndex(a) >= LinearIndex(b)

\* the category is a key of the budget, letter case aside
CategoryKnown(bud, category) ==
    toLowerCase(category) \in {toLowerCase(k) : k \in DOMAIN bud}

\* the records a finished batch wrote for its intent j, in the order written
RecsOf(d, j) ==
    LET Mine(x) == x.j = j
        mine == SelectSeq(d.recs, Mine)
    IN  [k \in DOMAIN mine |-> mine[k].rec]

\* intent j of a finished batch is an installment intent the resolver accepts
AcceptedInstallments(d, j) ==
    /\ CategoryKnown(d.bud, d.intents[j].category)
    /\ d.intents[j].hasInstallments
    /\ d.intents[j].count >= 2
    /\ d.intents[j].valueField # "none"

\* C1: currentMonth never decreases: after every operation its value is the
\* month it had before the operation or a later one.
CurrentMonthNeverDecreases == [][NotEarlier(currentMonth', currentMonth)]_vars

\* C2: in every reachable state viewedMonth is the same month as currentMonth
\* or an earlier one.
ViewedNotAfterCurrent == NotEarlier(currentMonth, viewedMonth)

\* C3: when a batch has been resolved, every accepted intent with
\* installments.count = N has exactly N records, written under N distinct ids
\* and one shared, non-empty group id, and its i-th record (i = 0..N-1) lies
\* startOffset + i months after the base month, so the months are consecutive.
InstallmentsMaterialized ==
    done # None =>
        \A j \in DOMAIN done.intents :
            AcceptedInstallments(done, j) =>
                LET req == done.intents[j]
                    recs == RecsOf(done, j)
                    base == IF req.baseMonth = "current" THEN done.cm ELSE done.vm
                IN  /\ Len(recs) = req.count
                    /\ Cardinality({recs[k].id : k \in DOMAIN recs}) = req.count
                    /\ \A k \in DOMAIN recs :
                         /\ recs[k].installmentGroupId # None
                         /\ recs[k].installmentGroupId = recs[1].installmentGroupId
                         /\ recs[k].month[2] \in 1..12
                         /\ LinearIndex(recs[k].month)
                              = LinearIndex(base) + req.startOffsetMonths + (k - 1)

InstallmentsMaterializedWitness ==
    /\ done # None
    /\ \E j \in DOMAIN done.intents :
         /\ AcceptedInstallments(done, j)
         /\ done.intents[j].startOffsetMonths > 0
         /\ Len(RecsOf(done, j)) = 3
         /\ RecsOf(done, j)[1].month[1] > done.cm[1]

\* C4: the installments of a total of whole cents add up to the total, and the
\* largest and the smallest differ by at most one cent.
SplitSumsToTotal ==
    res # None =>
        /\ SumSeq(res) = arg.total
        /\ \A a \in DOMAIN res : \A b \in DOMAIN res : res[a] - res[b] <= 1

SplitSumsToTotalWitness ==
    /\ res # None
    /\ arg.total % arg.count # 0
    /\ arg.total > arg.count

\* C5: the splitter returns count amounts; the first total - floor(total/count)
\* * count of them are floor(total/count) + 1, the others floor(total/count);
\* 10000 cents in 3 installments are 3334, 3333, 3333.
SplitFrontLoadsRemainder ==
    res # None =>
        LET floor == arg.total \div arg.count
            extra == arg.total - floor * arg.count
        IN  /\ Len(res) = arg.count
            /\ \A k \in 1..Len(res) : res[k] = IF k <= extra THEN floor + 1 ELSE floor
            /\ (arg.total = 10000 /\ arg.count = 3) => res = <<3334, 3333, 3333>>

SplitFrontLoadsRemainderWitness ==
    /\ res = <<3334, 3333, 3333>>
    /\ arg.total = 10000

\* C6: shifting a month by o1 and the result by o2 gives the month shifted by
\* o1 + o2, for offsets of either sign.
ShiftComposes ==
    (res # None /\ res.second # None) =>
        res.second = addMonthsToMonthKey(arg.k, arg.o1 + arg.o2)

ShiftComposesWitness ==
    /\ res # None
    /\ res.second # None
    /\ arg.o1 < -12
    /\ arg.o2 > 12
    /\ res.first[1] < arg.k[1]
    /\ res.second[1] > res.first[1]

\* C7: the shifted key has a month in 1..12 and the linear index
\* year * 12 + (month - 1) of the input plus the offset.
ShiftIsLinear ==
    res # None =>
        /\ res.first[2] \in 1..12
        /\ res.first[1] * 12 + (res.first[2] - 1)
             = arg.k[1] * 12 + (arg.k[2] - 1) + arg.o1

ShiftIsLinearWitness ==
    /\ res # None
    /\ arg.k[2] = 1
    /\ arg.o1 = -1
    /\ res.first = <<arg.k[1] - 1, 12>>

LedgerNotAfterCurrentMonth ==
    Quiescent =>
        /\ \A e \in dbExpenses : NotEarlier(currentMonth, e.month)
        /\ \A m \in DOMAIN dbBudgets : NotEarlier(currentMonth, m)

AddExpenseCategoryKnown ==
    [][(chat.pc \in {"batch", "legacy"} /\ chat' # chat) =>
          \A e \in dbExpenses' \ dbExpenses : CategoryKnown(chat.bud, e.category)]_vars

\* C12: after DELETE_CATEGORY of c while viewing month M the stored budget of M
\* has no key c, whatever its amount was, and the store has no expense of
\* month M whose category is c, letter case aside.
CategoryDeletedFromStore ==
    [][\A c \in DeleteCategories :
          DeleteCategoryOf(c) =>
              /\ chat.vm \in DOMAIN dbBudgets' => c \notin DOMAIN dbBudgets'[chat.vm]
              /\ \A e \in dbExpenses' :
                   e.month = chat.vm => toLowerCase(e.category) # toLowerCase(c)]_vars

\* C13: SET_BUDGET for month M (payload.month, or viewedMonth when absent)
\* leaves as stored budget of M the budget stored for M before, with the
\* payload's pairs added or overriding, and nothing else.
BudgetPatchedInTargetMonth ==
    [][\A month \in BudgetMonths, patch \in BudgetPatches :
          SetBudgetOf(month, patch) =>
              LET M == IF month # None THEN month ELSE chat.vm
                  before == IF M \in DOMAIN dbBudgets THEN dbBudgets[M] ELSE EmptyMap
              IN  /\ M \in DOMAIN dbBudgets'
                  /\ dbBudgets'[M] = patch @@ before]_vars

\* C14: whenever no handler is running, the stored expenses that share an
\* installment group id have one category, pairwise distinct months that
\* follow one another without a gap, and are as many as the count N of their
\* labels i/N.
InstallmentGroupsWhole ==
    Quiescent =>
        \A g \in {e.installmentGroupId : e \in dbExpenses} \ {None} :
            LET members == {e \in dbExpenses : e.installmentGroupId = g}
                months == {LinearIndex(e.month) : e \in members}
            IN  /\ \A a \in members : \A b \in members : a.category = b.category
                /\ Cardinality(months) = Cardinality(members)
                /\ \A a \in months : \A b \in months :
                     a < b => \A x \in a..b : x \in months
                /\ \A e \in members :
                     /\ e.installmentInfo # None
                     /\ e.installmentInfo[2] = Cardinality(members)

\* C15: the pending confirmation is empty at start; a message whose answer is
\* CONFIRM_ACTION leaves it holding the payload; a message that ends in any
\* other way (another action, a failure of the oracle call or of a store call)
\* leaves it empty; nothing else changes it.
PendingConfirmationCycle ==
    /\ pendingAction = Null
    /\ [][/\ ConfirmAction => pendingAction' = "payload"
          /\ (chat.pc # "idle" /\ chat'.pc = "idle" /\ ~ConfirmAction) =>
                 pendingAction' = Null
          /\ ~(chat.pc # "idle" /\ chat'.pc = "idle") =>
                 pendingAction' = pendingAction]_vars

PendingConfirmationCycleWitness ==
    /\ pendingAction = "payload"
    /\ ops = 2
    /\ chat.pc = "oracle"

\* C16: every stored expense has an amount greater than zero.
StoredAmountsPositive == \A e \in dbExpenses : e.amount > 0

\* intent j of a finished batch has a numeric amount and no installments
SimpleIntent(d, j) == d.intents[j].hasAmount /\ ~d.intents[j].hasInstallments

\* the messages of kind k in a transcript
CountKind(h, k) == Cardinality({x \in DOMAIN h : h[x] = k})

\* the record part of C17
SimpleIntentRecords ==
    done # None =>
        \A j \in DOMAIN done.intents :
            SimpleIntent(done, j) =>
                IF CategoryKnown(done.bud, done.intents[j].category)
                THEN /\ Len(RecsOf(done, j)) = 1
                     /\ RecsOf(done, j)[1].month = done.vm
                     /\ RecsOf(done, j)[1].installmentGroupId = None
                     /\ RecsOf(done, j)[1].installmentInfo = None
                ELSE RecsOf(done, j) = <<>>

\* C17: a simple intent whose category is a key of the viewed month's budget
\* gets exactly one record, of the viewed month, without group id and label;
\* one whose category is absent gets no record, and the transcript has one
\* more diagnostic about the category for each such intent.
SimpleIntentOutcome ==
    /\ SimpleIntentRecords
    /\ (/\ done # None
        /\ done.recs = <<>>
        /\ \A j \in DOMAIN done.intents : SimpleIntent(done, j)) =>
           CountKind(chatHistory, "diagCategory")
             = CountKind(done.chatLive, "diagCategory")
               + Cardinality({j \in DOMAIN done.intents :
                                ~CategoryKnown(done.bud, done.intents[j].category)})

\* C18: an installment intent with amountPerInstallment = a and count = N gets
\* N records of amount a each, whatever N * a is, and the record of the i-th
\* month of its schedule has the label i/N.
PerInstallmentAmountKept ==
    done # None =>
        \A j \in DOMAIN done.intents :
            (AcceptedInstallments(done, j)
               /\ done.intents[j].valueField = "amountPerInstallment") =>
                LET req == done.intents[j]
                    recs == RecsOf(done, j)
                IN  /\ Len(recs) = req.count
                    /\ \A k \in DOMAIN recs :
                         /\ recs[k].amount = req.value
                         /\ recs[k].installmentInfo = <<k, req.count>>
                         /\ LinearIndex(recs[k].month)
                              = LinearIndex(recs[1].month) + (k - 1)

PerInstallmentAmountKeptWitness ==
    /\ done # None
    /\ \E j \in DOMAIN done.intents :
         /\ done.intents[j].valueField = "amountPerInstallment"
         /\ done.intents[j].value = 10000
         /\ Len(RecsOf(done, j)) = 3
         /\ RecsOf(done, j)[3].installmentInfo = <<3, 3>>

\* intent j of a finished batch passes the resolver's validation
ValidIntent(d, j) ==
    LET req == d.intents[j]
    IN  /\ CategoryKnown(d.bud, req.category)
        /\ IF req.hasInstallments /\ req.count > 1
           THEN req.valueField # "none"
           ELSE req.hasAmount

\* the records a valid intent stands for
ExpectedRecords(d, j) ==
    IF d.intents[j].hasInstallments /\ d.intents[j].count > 1
    THEN d.intents[j].count ELSE 1

\* C19: in a batch that has been resolved, an intent rejected by validation
\* has no record, and every valid intent of the batch, before or after a
\* rejected one, has all of its records.
RejectedIntentSkipped ==
    done # None =>
        \A j \in DOMAIN done.intents :
            IF ValidIntent(done, j)
            THEN Len(RecsOf(done, j)) = ExpectedRecords(done, j)
            ELSE RecsOf(done, j) = <<>>

RejectedIntentSkippedWitness ==
    /\ done # None
    /\ Len(done.intents) = 2
    /\ ~ValidIntent(done, 1)
    /\ ValidIntent(done, 2)
    /\ Len(RecsOf(done, 2)) = 2

\* a write of installment k >= 2 of the batch of handler R has failed
FailedAfterFirst(R, R2) == R.pc = "batch" /\ R.i >= 1 /\ R2.pc = "idle"

\* the chat part of C20
ChatStoreFailureSurfaced ==
    [][(FailedAfterFirst(chat, chat') /\ nextId' = nextId) =>
          /\ dbExpenses' = dbExpenses
          /\ chatHistory' = Append(chatHistory, "error")
          /\ pendingAction' = Null]_vars

\* C20: when the write of installment k >= 2 of a batch fails, the records
\* written so far stay, nothing more is written, the transcript gets exactly
\* one failure message and the pending confirmation is emptied.
StoreFailureSurfaced ==
    [][((FailedAfterFirst(chat, chat') \/ FailedAfterFirst(form, form'))
          /\ nextId' = nextId) =>
          /\ dbExpenses' = dbExpenses
          /\ chatHistory' = Append(chatHistory, "error")
          /\ pendingAction' = Null]_vars

\* C21: when two add-expense batches have overlapped, each suspended at a
\* saveExpense, and both have returned, currentMonth is the same as or later
\* than every month either of them wrote.
OverlappingBatchesAdvance ==
    (done # None /\ done.peer # {}) =>
        \A m \in done.peer \cup MonthsOf(done.recs) : NotEarlier(currentMonth, m)

\* C22: while an add-expense batch is under way or has just returned, and no
\* reload is outstanding, every expense of the visible list belongs to
\* viewedMonth.
VisibleListOfViewedMonth ==
    (loads = <<>> /\ (chat.pc = "batch" \/ form.pc = "batch" \/ done # None)) =>
        \A e \in Range(expenses) : e.month = viewedMonth

\* C23: when no handler is running and no reload is outstanding, the visible
\* list holds the stored expenses of viewedMonth, the all-expenses list holds
\* every stored expense, and the in-memory budgets are the stored budget of
\* viewedMonth, or empty when none is stored.
ViewMirrorsStore ==
    (Quiescent /\ loads = <<>>) =>
        /\ Range(expenses) = {e \in dbExpenses : e.month = viewedMonth}
        /\ Len(expenses) = Cardinality(Range(expenses))
        /\ Range(allExpenses) = dbExpenses
        /\ Len(allExpenses) = Cardinality(dbExpenses)
        /\ budgets = IF getBudgets(viewedMonth) # None
                     THEN getBudgets(viewedMonth) ELSE EmptyMap

\* C24: in a batch that has been resolved, the first record of every intent
\* lies startOffsetMonths months after its base month, which is the
\* currentMonth the batch reads when installments.baseMonth is "current" and
\* the viewedMonth it reads otherwise; this holds also for an intent that
\* follows one which wrote to a month later than currentMonth.
FirstMonthFromBase ==
    done # None =>
        \A j \in DOMAIN done.intents :
            RecsOf(done, j) # <<>> =>
                LET req == done.intents[j]
                    base == IF req.baseMonth = "current" THEN done.cm ELSE done.vm
                    first == RecsOf(done, j)[1].month
                IN  /\ first[2] \in 1..12
                    /\ LinearIndex(first) = LinearIndex(base) + req.startOffsetMonths

FirstMonthFromBaseWitness ==
    /\ done # None
    /\ done.cm # done.vm
    /\ Len(done.intents) = 2
    /\ done.intents[2].baseMonth = "current"
    /\ RecsOf(done, 2) # <<>>
    /\ \E k \in DOMAIN RecsOf(done, 1) :
         LinearIndex(RecsOf(done, 1)[k].month) > LinearIndex(done.cm)

\* the latest month among the entries of an older-shape payload
LatestEntryMonth(entries) ==
    CHOOSE m \in {entries[k].month : k \in DOMAIN entries} :
        \A k \in DOMAIN entries : NotEarlier(m, entries[k].month)

\* C25 but for the group id: each entry of an older-shape payload gets exactly
\* one record with the entry's month, category and amount, and at the end
\* currentMonth is the latest month of the entries when that is later than the
\* currentMonth the handler read, and is left alone otherwise.
LegacyEntriesReplayed ==
    [][LegacySaveExpense =>
          LET exp == chat.intents[chat.j]
              latest == LatestEntryMonth(chat.intents)
          IN  /\ Cardinality(dbExpenses' \ dbExpenses) = 1
              /\ dbExpenses \subseteq dbExpenses'
              /\ \A e \in dbExpenses' \ dbExpenses :
                   /\ e.month = exp.month
                   /\ e.category = exp.category
                   /\ e.amount = exp.amount
              /\ chat'.pc = "idle" <=> chat.j = Len(chat.intents)
              /\ chat'.pc = "idle" =>
                   currentMonth' = IF LinearIndex(latest) > LinearIndex(chat.cm)
                                   THEN latest ELSE currentMonth]_vars

\* C25: an ADD_EXPENSE payload of the older shape is replayed as it is: each
\* entry gets exactly one record with the entry's own month, category, amount
\* and installment group id, and currentMonth ends as the later of its value
\* and the latest month of the entries.
LegacyReplayedAsIs ==
    [][LegacySaveExpense =>
          \A e \in dbExpenses' \ dbExpenses :
              /\ e.month = chat.intents[chat.j].month
              /\ e.category = chat.intents[chat.j].category
              /\ e.amount = chat.intents[chat.j].amount
              /\ e.installmentGroupId = chat.intents[chat.j].installmentGroupId]_vars

\* C26 from the states in which viewedMonth is not later than currentMonth
MonthSteppingWithinCurrent ==
    [][\A direction \in {"prev", "next"} :
          (NotEarlier(currentMonth, viewedMonth) /\ handleMonthChangeOf(direction)) =>
              /\ currentMonth' = currentMonth
              /\ dbBudgets' = dbBudgets
              /\ dbExpenses' = dbExpenses
              /\ viewedMonth'[2] \in 1..12
              /\ LinearIndex(viewedMonth') =
                    LinearIndex(viewedMonth) + (IF direction = "prev" THEN -1 ELSE 1)
              /\ NotEarlier(currentMonth, viewedMonth')]_vars

\* C26: a press of 'next' leaves viewedMonth alone when the month after it
\* is later than currentMonth and moves it forward by one month otherwise; a
\* press of 'prev' moves it back by one month; neither changes currentMonth
\* or the store.
MonthStepping ==
    [][\A direction \in {"prev", "next"} :
          handleMonthChangeOf(direction) =>
              /\ currentMonth' = currentMonth
              /\ dbBudgets' = dbBudgets
              /\ dbExpenses' = dbExpenses
              /\ viewedMonth'[2] \in 1..12
              /\ direction = "next" =>
                   LinearIndex(viewedMonth') =
                       IF LinearIndex(viewedMonth) + 1 > LinearIndex(currentMonth)
                       THEN LinearIndex(viewedMonth)
                       ELSE LinearIndex(viewedMonth) + 1
              /\ direction = "prev" =>
                   LinearIndex(viewedMonth') = LinearIndex(viewedMonth) - 1]_vars

\* C27: DELETE_EXPENSE deletes exactly one of the expenses of the visible list
\* the handler reads that match the payload's category, letter case aside, and
\* amount, from the store and from both lists, and leaves the others; without
\* a match the store and the lists stay as they are; viewedMonth and
\* currentMonth are unchanged.
DeleteExpenseRemovesOne ==
    [][\A payload \in DeletePayloads :
          DeleteExpenseOf(payload) =>
              LET matches == {e \in Range(chat.exps) :
                                /\ toLowerCase(e.category) = toLowerCase(payload.category)
                                /\ e.amount = payload.amount}
              IN  /\ viewedMonth' = viewedMonth
                  /\ currentMonth' = currentMonth
                  /\ IF matches = {}
                     THEN /\ dbExpenses' = dbExpenses
                          /\ expenses' = expenses
                          /\ allExpenses' = allExpenses
                     ELSE \E x \in matches :
                            /\ dbExpenses' = dbExpenses \ {x}
                            /\ Range(expenses') = Range(expenses) \ {x}
                            /\ Range(allExpenses') = Range(allExpenses) \ {x}
                            /\ Len(expenses) - Len(expenses') \in {0, 1}
                            /\ Len(allExpenses) - Len(allExpenses') \in {0, 1}]_vars

DeleteExpenseRemovesOneWitness ==
    /\ chatHistory = <<"model", "user", "model", "user", "model">>
    /\ nextId = 3
    /\ Cardinality(dbExpenses) = 1
    /\ Len(expenses) = 1
    /\ expenses[1].amount = 5000
    /\ expenses[1] \in dbExpenses

\* C28: when CLEAR_ALL_DATA has been carried out the store has no budget and
\* no expense, the in-memory budgets and both lists are empty, viewedMonth
\* and currentMonth are the real-world month and the pending confirmation is
\* empty.
AllDataCleared ==
    [][ClearAllData =>
          /\ dbBudgets' = EmptyMap
          /\ dbExpenses' = {}
          /\ budgets' = EmptyMap
          /\ expenses' = <<>>
          /\ allExpenses' = <<>>
          /\ viewedMonth' = Today
          /\ currentMonth' = Today
          /\ pendingAction' = Null]_vars

AllDataClearedWitness ==
    /\ Quiescent
    /\ ops = 2
    /\ nextId > 1
    /\ dbBudgets = EmptyMap
    /\ dbExpenses = {}
    /\ allExpenses = <<>>
    /\ currentMonth = Today
    /\ chatHistory = <<"model", "user", "model", "user", "model">>

\* the part of C29 about NEXT_MONTH, month navigation and expense operations
BudgetsKeptOrCopied ==
    [][/\ NextMonthOf(TRUE) =>
            LET next == <<JSDate(chat.vm[1], chat.vm[2]).fullYear,
                          JSDate(chat.vm[1], chat.vm[2]).month + 1>>
            IN  IF getBudgets(chat.vm) # None
                THEN /\ dbBudgets'[next] = dbBudgets[chat.vm]
                     /\ \A M \in DOMAIN dbBudgets \ {next} :
                          M \in DOMAIN dbBudgets' /\ dbBudgets'[M] = dbBudgets[M]
                ELSE dbBudgets' = dbBudgets
       /\ (\/ NextMonthOf(FALSE) \/ handleMonthChange \/ ViewPreviousMonth \/ LoadData
           \/ AddExpense \/ ChatSaveExpense \/ ChatSaveExpenseFails
           \/ AddExpenseLegacy \/ LegacySaveExpense \/ LegacySaveExpenseFails
           \/ DeleteExpense \/ handleDeleteExpense
           \/ handleLocalSubmit \/ FormSaveExpense \/ FormSaveExpenseFails) =>
            dbBudgets' = dbBudgets]_vars

\* C29: the stored budget of one month is copied into another month only by
\* NEXT_MONTH with copyBudgets, which makes the stored budget of the month
\* after viewedMonth equal to that of viewedMonth; NEXT_MONTH without
\* copyBudgets, month navigation and the expense operations leave every stored
\* budget as it is, and SET_BUDGET gives a month no category other than those
\* of its payload.
BudgetsCopiedOnlyByNextMonth ==
    /\ BudgetsKeptOrCopied
    /\ [][\A month \in BudgetMonths, patch \in BudgetPatches :
             SetBudgetOf(month, patch) =>
                 \A M \in DOMAIN dbBudgets' : \A k \in DOMAIN dbBudgets'[M] :
                     (M \notin DOMAIN dbBudgets \/ k \notin DOMAIN dbBudgets[M]) =>
                         k \in DOMAIN patch]_vars

\* C30: when the oracle call fails or its answer cannot be parsed, the store,
\* the in-memory budgets and lists, viewedMonth and currentMonth stay as they
\* are, the transcript gets exactly one failure message, the pending
\* confirmation is emptied and the loading flag is reset, so that a further
\* message can be sent.
OracleFailureContained ==
    [][OracleFails =>
          /\ dbBudgets' = dbBudgets
          /\ dbExpenses' = dbExpenses
          /\ budgets' = budgets
          /\ expenses' = expenses
          /\ allExpenses' = allExpenses
          /\ viewedMonth' = viewedMonth
          /\ currentMonth' = currentMonth
          /\ chatHistory' = Append(chatHistory, "error")
          /\ pendingAction' = Null
          /\ isLoading' = FALSE
          /\ chat'.pc = "idle"]_vars

OracleFailureContainedWitness ==
    /\ chatHistory = <<"model", "user", "model", "user", "error">>
    /\ nextId > 1
    /\ dbExpenses # {}
    /\ pendingAction = Null
    /\ ~isLoading
    /\ chat.pc = "idle"
    /\ Len(allExpenses) = Cardinality(dbExpenses)

====
